---- MODULE Spec2Model ----
(***************************************************************************)
(* Models of the samples of the hello-world repository:                    *)
(*   - the ChatAgent singleton of fastapi-langgraph-chat-sample            *)
(*     (get_chat_agent under @lru_cache(maxsize=1), and the original       *)
(*     check-then-create implementation it replaced),                      *)
(*   - the handling of POST /api/chat requests on the event loop,          *)
(*   - scripts/create-python-project.sh,                                   *)
(*   - scripts/init-db.sh and the initial set-up script of the             *)
(*     devcontainer samples,                                               *)
(*   - uvicorn worker processes and the rate limiter of ChatAgent,         *)
(*   - the WebSocket chat page (chat.js) and the HTTP chat page            *)
(*     (index.html).                                                       *)
(* Each part has its own specification; the variables of the other parts   *)
(* stay at their initial values.                                           *)
(***************************************************************************)
EXTENDS Naturals, Sequences, FiniteSets, TLC

\* ------------------------------------------------------------------ bounds
\* get_chat_agent() calls between two cache clears (sequential use)
MaxCalls == 4
\* cache clears in one run
MaxClears == 2
\* concurrent request-handling tasks (threads) of one process
NumTasks == 3

\* Python's None / JavaScript's null; instances and ids are 1, 2, ...
None == 0
\* @lru_cache(maxsize=1)
maxsize == 1

Tasks == 1..NumTasks

\* POST /api/chat requests in one run
NumRequests == 2
\* words a project name is made of, at most
MaxWords == 2

Requests == 1..NumRequests

VARIABLES
    cache,          \* lru_cache: the set of cached results of get_chat_agent()
    hits,           \* lru_cache statistics
    misses,
    created,        \* number of ChatAgent() constructions so far
    returned,       \* instances returned by get_chat_agent() since the last clear
    retired,        \* instances returned before the last clear
    createdAtClear, \* value of created at the last clear
    clears,         \* number of cache clears so far
    pc,             \* position of each concurrent task
    made,           \* the instance each task constructed (None: none)
    got,            \* the instance get_chat_agent() returned to each task
    chat_agent,     \* original implementation: the global _chat_agent
    assigns,        \* original implementation: tasks in the order they assigned
    \* POST /api/chat
    rpc,            \* position of each request's handler
    rcid,           \* conversation_id carried by each request (None: absent)
    cid,            \* conversation id the handler works with
    resp,           \* the HTTP response of each request
    generated,      \* uuids generated so far
    log,            \* requests whose LLM error was logged
    llmCalls,       \* LLM calls made by the repository's code, per request
    outcome,        \* how each request's LLM call ended
    loop,           \* the task occupying the event loop (None: free)
    started,        \* requests in the order their LLM call started
    finished,       \* requests in the order their handler ended
    \* create-python-project.sh
    argv,           \* the script's arguments
    pre,            \* what is at <project_name> before the run
    fs,             \* the file system below the caller's directory
    cwd,            \* the script's working directory
    spc,            \* the script's position
    out,            \* what the script printed
    status          \* the script's exit status

agentVars == <<cache, hits, misses, created, returned, retired, createdAtClear,
               clears, pc, made, got, chat_agent, assigns>>

chatVars == <<rpc, rcid, cid, resp, generated, log, llmCalls, outcome, loop, started,
              finished>>

scriptVars == <<argv, pre, fs, cwd, spc, out, status>>

\* runs of init-db.sh in one devcontainer
MaxRuns == 3
\* failed pg_isready checks that are counted (the loop itself has no limit)
MaxRetries == 3

VARIABLES
    \* scripts/init-db.sh
    dpc,            \* the script's position
    pg_ready,       \* whether PostgreSQL accepts connections
    retries,        \* failed pg_isready checks of this run (counted up to MaxRetries)
    cmds,           \* the commands this run has executed, in order
    revisions,      \* the migration revisions in alembic/versions
    db_head,        \* the revision the database is at (None: no revision applied)
    runs,           \* completed runs
    revsAfterRun    \* the revisions at the end of each completed run

dbVars == <<dpc, pg_ready, retries, cmds, revisions, db_head, runs, revsAfterRun>>

\* runs of the initial set-up script in one workspace
MaxSetups == 3

VARIABLES
    \* the initial set-up script (初期セットアップスクリプト)
    upc,            \* the script's position ("idle": not running)
    env,            \* the content of ./.env (None: no such file)
    envBefore,      \* ./.env at the start of each run
    envAfter,       \* ./.env at the end of each completed run
    uout,           \* what this run has printed about .env
    synced,         \* whether uv sync has installed the dependencies
    executable,     \* whether scripts/*.sh carry the executable bit
    ustatus         \* the exit status of each completed run

setupVars == <<upc, env, envBefore, envAfter, uout, synced, executable, ustatus>>

\* uvicorn --workers NumWorkers, each worker serving on WorkerThreads threads
NumWorkers == 2
NumWorkerThreads == 2

VARIABLES
    \* the worker processes of uvicorn, each with its own module state
    wcache,         \* per process: the entries of its lru_cache
    wpc,            \* per process and thread: position in get_chat_agent()
    wmade,          \* per process and thread: the instance its call constructed
    wgot,           \* per process and thread: the instance its call returned
    wcreated        \* per process: the ChatAgent instances constructed in it

workerVars == <<wcache, wpc, wmade, wgot, wcreated>>

\* InMemoryRateLimiter(requests_per_second=10, check_every_n_seconds=0.1,
\*                     max_bucket_size=10)
requests_per_second == 10
max_bucket_size == 10
\* clock ticks per 1/requests_per_second seconds (the time one token takes)
TicksPerToken == 2
\* how long the clock runs beyond the time that fills an empty bucket
MaxSlack == 3
\* the tasks that go on to call the LLM
NumCallers == 2

VARIABLES
    \* the rate limiter each ChatAgent creates in __init__, by instance
    available_tokens,   \* in 1/TicksPerToken tokens
    last,               \* the time of the last refill (None: never consumed)
    first,              \* the time of the first _consume (None: never)
    grants,             \* the calls the limiter has let through
    now,                \* time.monotonic(), in ticks
    lpc,                \* per task: position in rate_limiter.acquire()
    wake                \* per task: when its time.sleep() ends

limiterVars == <<available_tokens, last, first, grants, now, lpc, wake>>

\* chat messages one WebSocket page sends
MaxWsSends == 2
\* the longest text typed into an input field, in characters
MaxText == 1

VARIABLES
    \* the WebSocket chat: the page's script (chat.js) and its server
    ws,             \* ws.readyState: "connecting", "open" or "closed"
    userInput,      \* userInput.value
    chatMessages,   \* the children of #chat-messages, in order
    wsSends,        \* sendMessage() calls that reached ws.send
    toServer,       \* frames on their way to the server
    toClient,       \* frames on their way to the page
    serving,        \* the message the server's handler is working on
    received,       \* the messages the server has received
    frames,         \* the frames the server has emitted
    consoleErrors   \* console.error calls of the page

wsVars == <<ws, userInput, chatMessages, wsSends, toServer, toClient, serving,
            received, frames, consoleErrors>>

\* requests one HTTP chat page starts
MaxPosts == 2

VARIABLES
    \* the HTTP chat page (index.html)
    messageInput,   \* messageInput.value
    sendDisabled,   \* sendButton.disabled
    loadingShown,   \* loading.style.display = 'block'
    conversationId, \* let conversationId = null
    inflight,       \* the fetch('/api/chat') calls not yet settled
    posts,          \* the requests started so far
    settled,        \* the requests settled so far, with their outcome
    chatArea,       \* the children of #chatArea, in order
    pageIds         \* the conversation ids the server has generated

pageVars == <<messageInput, sendDisabled, loadingShown, conversationId,
              inflight, posts, settled, chatArea, pageIds>>

\* the browser pages
clientVars == <<wsVars, pageVars>>

\* the samples outside fastapi-langgraph-chat-sample's server and the
\* scaffolding script
sampleVars == <<dbVars, setupVars, workerVars, limiterVars, clientVars>>

vars == <<agentVars, chatVars, scriptVars, sampleVars>>

\* --------------------------------------------------------- ChatAgent cache
\* ChatAgent(): a new object, distinct from the n objects constructed before.
ChatAgent(n) == n + 1

\* lru_cache that keeps nothing (what maxsize=0 would do)
lru_store_nothing(c, v) == c

\* lru_cache wrapper after the wrapped function returned v: the result is
\* stored under the (only) key () unless the key was added during the call.
lru_store(c, v) == IF maxsize = 0 \/ c # {} THEN c ELSE {v}

\* a cache_clear that leaves the entry in place
cache_clear_keeps(c) == c

\* get_chat_agent.cache_clear()
cache_clear(c) == {}

\* the entry stored under the key ()
cached(c) == CHOOSE a \in c : TRUE

AgentInit ==
    /\ cache = {}
    /\ hits = 0
    /\ misses = 0
    /\ created = 0
    /\ returned = <<>>
    /\ retired = {}
    /\ createdAtClear = 0
    /\ clears = 0
    /\ pc = [t \in Tasks |-> "idle"]
    /\ made = [t \in Tasks |-> None]
    /\ got = [t \in Tasks |-> None]
    /\ chat_agent = None
    /\ assigns = <<>>

\* No request has arrived.
ChatInit ==
    /\ rpc = [r \in Requests |-> "absent"]
    /\ rcid = [r \in Requests |-> None]
    /\ cid = [r \in Requests |-> None]
    /\ resp = [r \in Requests |-> [status |-> 0, conversation_id |-> None, body |-> "none"]]
    /\ generated = {}
    /\ log = {}
    /\ llmCalls = [r \in Requests |-> 0]
    /\ outcome = [r \in Requests |-> "pending"]
    /\ loop = None
    /\ started = <<>>
    /\ finished = <<>>

\* The script is not run.
ScriptRest ==
    /\ argv = <<>>
    /\ pre = "nothing"
    /\ fs = {}
    /\ cwd = <<>>
    /\ spc = "start"
    /\ out = <<>>
    /\ status = 0

\* init-db.sh is not run.
DbRest ==
    /\ dpc = "wait"
    /\ pg_ready = FALSE
    /\ retries = 0
    /\ cmds = <<>>
    /\ revisions = {}
    /\ db_head = None
    /\ runs = 0
    /\ revsAfterRun = <<>>

\* The set-up script is not run; the workspace has no .env.
SetupRest ==
    /\ upc = "idle"
    /\ env = None
    /\ envBefore = <<>>
    /\ envAfter = <<>>
    /\ uout = <<>>
    /\ synced = FALSE
    /\ executable = FALSE
    /\ ustatus = <<>>

Workers == 1..NumWorkers
WorkerThreads == 1..NumWorkerThreads

\* The worker processes have started and served nothing.
WorkerRest ==
    /\ wcache = [w \in Workers |-> {}]
    /\ wpc = [w \in Workers |-> [t \in WorkerThreads |-> "idle"]]
    /\ wmade = [w \in Workers |-> [t \in WorkerThreads |-> {}]]
    /\ wgot = [w \in Workers |-> [t \in WorkerThreads |-> {}]]
    /\ wcreated = [w \in Workers |-> {}]

\* the ChatAgent instances the tasks can construct
Agents == 1..NumTasks

\* No ChatAgent has made a call; a limiter starts with an empty bucket.
LimiterRest ==
    /\ available_tokens = [a \in Agents |-> 0]
    /\ last = [a \in Agents |-> None]
    /\ first = [a \in Agents |-> None]
    /\ grants = [a \in Agents |-> 0]
    /\ now = 1
    /\ lpc = [t \in Tasks |-> "idle"]
    /\ wake = [t \in Tasks |-> None]

\* new WebSocket(wsUrl): the page has loaded and the connection is being
\* made; nothing typed, nothing shown.
WsRest ==
    /\ ws = "connecting"
    /\ userInput = <<>>
    /\ chatMessages = <<>>
    /\ wsSends = 0
    /\ toServer = <<>>
    /\ toClient = <<>>
    /\ serving = <<>>
    /\ received = <<>>
    /\ frames = <<>>
    /\ consoleErrors = 0

\* The HTTP chat page has loaded: the button is enabled, the loading
\* indicator hidden, no conversation yet.
PageRest ==
    /\ messageInput = <<>>
    /\ sendDisabled = FALSE
    /\ loadingShown = FALSE
    /\ conversationId = None
    /\ inflight = {}
    /\ posts = 0
    /\ settled = <<>>
    /\ chatArea = <<>>
    /\ pageIds = {}

\* The other samples are not run.
SampleRest == DbRest /\ SetupRest /\ WorkerRest /\ LimiterRest /\ WsRest /\ PageRest

\* a cache_clear() that leaves the statistics running
cache_clear_counter_kept(n) == n

\* cache_clear() also sets the hit and miss counters back to zero
cache_clear_counter(n) == 0

\* get_chat_agent_cache_info(): get_chat_agent.cache_info()._asdict()
get_chat_agent_cache_info ==
    [hits |-> hits, misses |-> misses, maxsize |-> maxsize,
     currsize |-> Cardinality(cache)]

\* One whole get_chat_agent() call made by task t, nothing else running in
\* between.
get_chat_agent(t) ==
    /\ Len(returned) < MaxCalls
    /\ IF cache # {}
       THEN /\ hits' = hits + 1
            /\ returned' = Append(returned, cached(cache))
            /\ got' = [got EXCEPT ![t] = cached(cache)]
            /\ UNCHANGED <<cache, misses, created>>
       ELSE /\ misses' = misses + 1
            /\ created' = ChatAgent(created)
            /\ cache' = lru_store(cache, ChatAgent(created))
            /\ returned' = Append(returned, ChatAgent(created))
            /\ got' = [got EXCEPT ![t] = ChatAgent(created)]
            /\ UNCHANGED hits
    /\ UNCHANGED <<retired, createdAtClear, clears, pc, made, chat_agent, assigns>>
    /\ UNCHANGED <<chatVars, scriptVars, sampleVars>>

\* clear_chat_agent_cache(): cache_clear() empties the cache and resets the
\* statistics.
clear_chat_agent_cache ==
    /\ clears < MaxClears
    /\ cache' = cache_clear(cache)
    /\ hits' = cache_clear_counter(hits)
    /\ misses' = cache_clear_counter(misses)
    /\ retired' = retired \cup {returned[i] : i \in DOMAIN returned}
    /\ returned' = <<>>
    /\ createdAtClear' = created
    /\ clears' = clears + 1
    /\ UNCHANGED <<created, pc, made, got, chat_agent, assigns>>
    /\ UNCHANGED <<chatVars, scriptVars, sampleVars>>

NextCache == (\E t \in Tasks : get_chat_agent(t)) \/ clear_chat_agent_cache

\* Sequential use of the cached constructor (the unit test's use).
InitCache == AgentInit /\ ChatInit /\ ScriptRest /\ SampleRest

SpecCache == InitCache /\ [][NextCache]_vars

\* C1: with no cache clear in between, every get_chat_agent() call returns
\* the instance the first call returned.
C1_SameInstance ==
    \A i \in DOMAIN returned : returned[i] = returned[1]

C1_Witness ==
    /\ Len(returned) >= 3
    /\ hits >= 2

\* C2: after clear_chat_agent_cache() the next get_chat_agent() constructs a
\* new ChatAgent, different from every instance returned before the clear,
\* and the later calls up to the next clear return that new instance.
C2_NewAfterClear ==
    (clears > 0 /\ returned # <<>>) =>
        /\ created = createdAtClear + 1
        /\ returned[1] = created
        /\ returned[1] \notin retired
        /\ \A i \in DOMAIN returned : returned[i] = returned[1]

C2_Witness ==
    /\ clears > 0
    /\ retired # {}
    /\ Len(returned) >= 2
\* ------------------------------------------- get_chat_agent under threads
\* The lru_cache wrapper does not hold a lock while the wrapped function
\* runs: a call is a lookup, then (on a miss) the call of the wrapped
\* function, then the store. Threads of the process may switch between these.

\* lookup of the key (): a hit returns the entry, a miss counts and goes on
\* to call the wrapped function
lru_lookup(t) ==
    /\ pc[t] = "idle"
    /\ IF cache # {}
       THEN /\ hits' = hits + 1
            /\ got' = [got EXCEPT ![t] = cached(cache)]
            /\ pc' = [pc EXCEPT ![t] = "done"]
            /\ UNCHANGED misses
       ELSE /\ misses' = misses + 1
            /\ pc' = [pc EXCEPT ![t] = "calling"]
            /\ UNCHANGED <<hits, got>>
    /\ UNCHANGED <<cache, created, made, returned, retired, createdAtClear,
                   clears, chat_agent, assigns>>
    /\ UNCHANGED <<chatVars, scriptVars, sampleVars>>

\* the wrapped function body: logger.info(...); return ChatAgent()
lru_call(t) ==
    /\ pc[t] = "calling"
    /\ created' = ChatAgent(created)
    /\ made' = [made EXCEPT ![t] = ChatAgent(created)]
    /\ pc' = [pc EXCEPT ![t] = "storing"]
    /\ UNCHANGED <<cache, hits, misses, got, returned, retired, createdAtClear,
                   clears, chat_agent, assigns>>
    /\ UNCHANGED <<chatVars, scriptVars, sampleVars>>

\* the wrapper stores the result (unless the key is there by now) and
\* returns the result of its own call
lru_return(t) ==
    /\ pc[t] = "storing"
    /\ cache' = lru_store(cache, made[t])
    /\ got' = [got EXCEPT ![t] = made[t]]
    /\ pc' = [pc EXCEPT ![t] = "done"]
    /\ UNCHANGED <<hits, misses, created, made, returned, retired,
                   createdAtClear, clears, chat_agent, assigns>>
    /\ UNCHANGED <<chatVars, scriptVars, sampleVars>>

NextThreads == \E t \in Tasks : lru_lookup(t) \/ lru_call(t) \/ lru_return(t)

\* Concurrent request-handling tasks calling get_chat_agent(), no clear.
InitThreads == AgentInit /\ ChatInit /\ ScriptRest /\ SampleRest

SpecThreads == InitThreads /\ [][NextThreads]_vars

\* C3: under any interleaving of concurrent tasks calling the cached
\* get_chat_agent(), ChatAgent is constructed at most once and every task
\* receives the same instance.
C3_ConstructedOnce ==
    /\ created <= 1
    /\ \A t, u \in Tasks :
          (got[t] # None /\ got[u] # None) => got[t] = got[u]

\* ------------------------------------------- the original implementation
\*   _chat_agent: ChatAgent | None = None
\*   def get_chat_agent():
\*       global _chat_agent
\*       if _chat_agent is None:
\*           _chat_agent = ChatAgent()
\*       return _chat_agent

\* an assignment that keeps an instance already set
orig_assign_if_unset(cur, new) == IF cur = None THEN new ELSE cur

\* _chat_agent = <new>
orig_assign(cur, new) == new

\* if _chat_agent is None
orig_check(t) ==
    /\ pc[t] = "idle"
    /\ pc' = [pc EXCEPT ![t] = IF chat_agent = None THEN "create" ELSE "return"]
    /\ UNCHANGED <<cache, hits, misses, created, returned, retired,
                   createdAtClear, clears, made, got, chat_agent, assigns>>
    /\ UNCHANGED <<chatVars, scriptVars, sampleVars>>

\* ChatAgent(), the right-hand side of the assignment
orig_create(t) ==
    /\ pc[t] = "create"
    /\ created' = ChatAgent(created)
    /\ made' = [made EXCEPT ![t] = ChatAgent(created)]
    /\ pc' = [pc EXCEPT ![t] = "assign"]
    /\ UNCHANGED <<cache, hits, misses, returned, retired, createdAtClear,
                   clears, got, chat_agent, assigns>>
    /\ UNCHANGED <<chatVars, scriptVars, sampleVars>>

\* the store into the global
orig_store(t) ==
    /\ pc[t] = "assign"
    /\ chat_agent' = orig_assign(chat_agent, made[t])
    /\ assigns' = Append(assigns, t)
    /\ pc' = [pc EXCEPT ![t] = "return"]
    /\ UNCHANGED <<cache, hits, misses, created, returned, retired,
                   createdAtClear, clears, made, got>>
    /\ UNCHANGED <<chatVars, scriptVars, sampleVars>>

\* return _chat_agent
orig_return(t) ==
    /\ pc[t] = "return"
    /\ got' = [got EXCEPT ![t] = chat_agent]
    /\ pc' = [pc EXCEPT ![t] = "done"]
    /\ UNCHANGED <<cache, hits, misses, created, returned, retired,
                   createdAtClear, clears, made, chat_agent, assigns>>
    /\ UNCHANGED <<chatVars, scriptVars, sampleVars>>

NextOriginal ==
    \E t \in Tasks : orig_check(t) \/ orig_create(t) \/ orig_store(t) \/ orig_return(t)

InitOriginal == AgentInit /\ ChatInit /\ ScriptRest /\ SampleRest

SpecOriginal == InitOriginal /\ [][NextOriginal]_vars

\* tasks that found _chat_agent to be None and constructed an instance
SawNone == {t \in Tasks : made[t] # None}

\* C4: in the original implementation every task that observed None before
\* an assignment constructs its own ChatAgent, so concurrent requests create
\* several instances, and the global holds the instance assigned last (a
\* later assignment overwrites the earlier one).
C4_OriginalRace ==
    /\ created = Cardinality(SawNone)
    /\ \A t, u \in SawNone : t # u => made[t] # made[u]
    /\ assigns # <<>> => chat_agent = made[assigns[Len(assigns)]]

C4_Witness ==
    /\ Len(assigns) >= 2
    /\ created >= 2
    /\ made[assigns[1]] # made[assigns[2]]
    /\ chat_agent = made[assigns[Len(assigns)]]
    /\ chat_agent # made[assigns[1]]
\* ------------------------------------------------------- POST /api/chat
\* Request handlers are coroutines on one event loop: a handler runs from
\* one await to the next, and the loop picks another handler only when the
\* running one awaits or returns.

\* a conversation id of the client's own choice
ClientChosenId == NumRequests + 1

UuidSpace == 1..NumRequests

\* a generator that may hand out an id again
uuid4_any(gen) == UuidSpace

\* uuid.uuid4(): an id not handed out before
uuid4(gen) == UuidSpace \ gen

\* a handler that always generates an id
conversation_id_fresh(requested, fresh) == fresh

\* request.conversation_id or str(uuid.uuid4())
conversation_id_for(requested, fresh) ==
    IF requested # None THEN requested ELSE fresh

\* conversation ids the server has returned so far
ReturnedIds ==
    {resp[r].conversation_id : r \in {q \in Requests : resp[q].status = 200}}

\* self.llm.invoke(...): the call occupies the event loop until it returns
invoke(r) == r

\* await self.llm.ainvoke(...): the handler is suspended, the loop is free
ainvoke(r) == None

\* _generate_response that answers with a fallback reply instead of raising
_generate_response_swallows(llm) ==
    IF llm = "ok"
    THEN [raised |-> FALSE, logged |-> FALSE, reply |-> "reply"]
    ELSE [raised |-> FALSE, logged |-> TRUE, reply |-> "fallback"]

\* _generate_response once the LLM call has ended: the reply, or on an
\* exception logger.error(...) and raise e
_generate_response(llm) ==
    IF llm = "ok"
    THEN [raised |-> FALSE, logged |-> FALSE, reply |-> "reply"]
    ELSE [raised |-> TRUE, logged |-> TRUE, reply |-> "none"]

\* the response the route sends: the ChatResponse, or the HTTP error the
\* exception is converted to
chat_response(c, g) ==
    IF g.raised
    THEN [status |-> 500, conversation_id |-> None, body |-> "detail"]
    ELSE [status |-> 200, conversation_id |-> c, body |-> g.reply]

\* a client sends POST /api/chat {message, conversation_id: c}
receive(r, c) ==
    /\ rpc[r] = "absent"
    /\ \A q \in Requests : q < r => rpc[q] # "absent"
    /\ rpc' = [rpc EXCEPT ![r] = "received"]
    /\ rcid' = [rcid EXCEPT ![r] = c]
    /\ UNCHANGED <<cid, resp, generated, log, llmCalls, outcome, loop, started, finished>>
    /\ UNCHANGED <<agentVars, scriptVars, sampleVars>>

\* the handler runs up to the LLM call
chat_start(r) ==
    /\ rpc[r] = "received"
    /\ loop = None
    /\ \E u \in (IF rcid[r] = None THEN uuid4(generated) ELSE {None}) :
          /\ cid' = [cid EXCEPT ![r] = conversation_id_for(rcid[r], u)]
          /\ generated' = IF rcid[r] = None THEN generated \cup {u} ELSE generated
    /\ llmCalls' = [llmCalls EXCEPT ![r] = @ + 1]
    /\ started' = Append(started, r)
    /\ loop' = ainvoke(r)
    /\ rpc' = [rpc EXCEPT ![r] = "awaiting"]
    /\ UNCHANGED <<rcid, resp, log, outcome, finished>>
    /\ UNCHANGED <<agentVars, scriptVars, sampleVars>>

\* the LLM call ends (a reply or an exception) and the handler runs to its
\* end
chat_finish(r, llm) ==
    /\ rpc[r] = "awaiting"
    /\ loop \in {None, r}
    /\ outcome' = [outcome EXCEPT ![r] = llm]
    /\ log' = IF _generate_response(llm).logged THEN log \cup {r} ELSE log
    /\ resp' = [resp EXCEPT ![r] = chat_response(cid[r], _generate_response(llm))]
    /\ loop' = None
    /\ finished' = Append(finished, r)
    /\ rpc' = [rpc EXCEPT ![r] = "responded"]
    /\ UNCHANGED <<rcid, cid, generated, llmCalls, started>>
    /\ UNCHANGED <<agentVars, scriptVars, sampleVars>>

NextChat ==
    \/ \E r \in Requests, c \in {None, ClientChosenId} \cup ReturnedIds : receive(r, c)
    \/ \E r \in Requests : chat_start(r)
    \/ \E r \in Requests, llm \in {"ok", "exception"} : chat_finish(r, llm)

InitChat == AgentInit /\ ChatInit /\ ScriptRest /\ SampleRest

SpecChat == InitChat /\ [][NextChat]_vars

\* C5: a successful response to a request that carries a conversation_id
\* carries the same conversation_id.
C5_SameConversationId ==
    \A r \in Requests :
        (resp[r].status = 200 /\ rcid[r] # None) =>
            resp[r].conversation_id = rcid[r]

C5_Witness ==
    \E r, q \in Requests :
        /\ resp[q].status = 200 /\ rcid[q] = None
        /\ resp[r].status = 200 /\ rcid[r] = resp[q].conversation_id

\* C6: a successful response to a request without conversation_id carries
\* a generated conversation_id, different from the one returned for any
\* other request without conversation_id.
C6_FreshConversationId ==
    \A r \in Requests :
        (resp[r].status = 200 /\ rcid[r] = None) =>
            /\ resp[r].conversation_id # None
            /\ \A q \in Requests \ {r} :
                  (resp[q].status = 200 /\ rcid[q] = None) =>
                      resp[q].conversation_id # resp[r].conversation_id

\* two requests without conversation_id, handled concurrently (the second
\* was answered while the first was pending), both answered
C6_Witness ==
    \E r, q \in Requests :
        /\ r # q
        /\ rcid[r] = None /\ rcid[q] = None
        /\ started = <<r, q>> /\ finished = <<q, r>>
        /\ resp[r].status = 200 /\ resp[q].status = 200
        /\ resp[r].conversation_id # resp[q].conversation_id

\* C7: while a request's LLM call is pending, a request that is waiting to be
\* handled can start its own LLM call, and any other pending call can
\* complete.
C7_SlowCallDoesNotBlock ==
    \A r, q \in Requests :
        (r # q /\ rpc[r] = "awaiting") =>
            /\ rpc[q] = "received" => ENABLED chat_start(q)
            /\ rpc[q] = "awaiting" => ENABLED chat_finish(q, "ok")

C7_Witness ==
    \E r, q \in Requests :
        /\ r < q
        /\ Len(started) >= 2 /\ started[1] = r /\ started[2] = q
        /\ rpc[r] = "awaiting"
        /\ resp[q].status = 200

\* C8: when the LLM call raised, the error was logged, the LLM was called
\* once for the request, and the request ended with an error response, not
\* with a success response.
C8_ErrorIsReported ==
    \A r \in Requests :
        outcome[r] = "exception" =>
            /\ r \in log
            /\ llmCalls[r] = 1
            /\ rpc[r] = "responded"
            /\ resp[r].status = 500
            /\ resp[r].body = "detail"

C8_Witness ==
    \E r \in Requests :
        /\ outcome[r] = "exception"
        /\ resp[r].status = 500
        /\ r \in log
\* ------------------------------------------- create-python-project.sh
\* A string is the sequence of its whitespace-separated words; a path is the
\* sequence of its components, each a string; paths are relative to the
\* directory the script was started in.

Words == {"my", "app"}

\* strings of at most n words
Strings(n) == UNION {[1..k -> Words] : k \in 0..n}

\* the argument lists the script is run with: none, or one argument
Args == {<<>>} \cup {<<a>> : a \in Strings(MaxWords)}

\* PROJECT_NAME=$1
PROJECT_NAME == IF argv = <<>> THEN <<>> ELSE argv[1]

\* a test that never finds the name empty
is_empty_never(n) == FALSE

\* [ -z "$PROJECT_NAME" ]
is_empty(n) == n = <<>>

\* the fields of the word prefix/$PROJECT_NAME/suffix: the unquoted
\* expansion is split at whitespace
split_fields(prefix, n, suffix) ==
    IF Len(n) <= 1
    THEN << prefix \o (IF n = <<>> THEN <<>> ELSE <<n>>) \o suffix >>
    ELSE [i \in 1..Len(n) |->
            IF i = 1 THEN prefix \o << <<n[1]>> >>
            ELSE IF i = Len(n) THEN << <<n[i]>> >> \o suffix
            ELSE << <<n[i]>> >>]

Dir(p) == [path |-> p, kind |-> "dir"]

File(p) == [path |-> p, kind |-> "file"]

IsDir(f, p) == p = <<>> \/ Dir(p) \in f

Exists(f, p) == IsDir(f, p) \/ File(p) \in f

Parent(p) == SubSeq(p, 1, Len(p) - 1)

Prefixes(p) == {SubSeq(p, 1, i) : i \in 1..Len(p)}

\* mkdir -p p: every missing directory on the way to p, up to a component
\* that is a regular file
mkdir_p(f, p) ==
    f \cup {Dir(q) : q \in {x \in Prefixes(p) :
                              \A y \in Prefixes(x) : File(y) \notin f}}

\* touch p, or the creation of the target of "> p"
create_file(f, p) ==
    IF IsDir(f, Parent(p)) /\ ~Exists(f, p) THEN f \cup {File(p)} ELSE f

\* touch with the given fields as arguments
touch(f, fields) ==
    f \cup UNION {create_file(f, fields[i]) : i \in DOMAIN fields}

\* command > word: a word expanding to several fields is an ambiguous
\* redirect, and the command is not run
redirect(f, fields) ==
    IF Len(fields) = 1 THEN create_file(f, fields[1]) ELSE f

\* the fields of a command line, resolved against the working directory
Abs(fields) == [i \in DOMAIN fields |-> cwd \o fields[i]]

\* the file system before the run
InitialFs(what, n) ==
    CASE what = "nothing" -> {}
      [] what = "file" -> {File(<<n>>)}
      [] what = "dir" -> {Dir(<<n>>)}

ScriptInit ==
    /\ argv \in Args
    /\ pre \in (IF PROJECT_NAME = <<>> THEN {"nothing"} ELSE {"nothing", "file", "dir"})
    /\ fs = InitialFs(pre, PROJECT_NAME)
    /\ cwd = <<>>
    /\ spc = "start"
    /\ out = <<>>
    /\ status = 0

\* a command that changes the file system and lets the script go on
Advance(from, to, newfs) ==
    /\ spc = from
    /\ spc' = to
    /\ fs' = newfs
    /\ UNCHANGED <<argv, pre, cwd, out, status>>
    /\ UNCHANGED <<agentVars, chatVars, sampleVars>>

\* if [ -z "$PROJECT_NAME" ]; then echo "Usage: ..."; exit 1; fi
sh_check ==
    /\ spc = "start"
    /\ IF is_empty(PROJECT_NAME)
       THEN /\ out' = Append(out, "Usage: $0 <project_name>")
            /\ status' = 1
            /\ spc' = "exited"
       ELSE /\ spc' = "mkdir"
            /\ UNCHANGED <<out, status>>
    /\ UNCHANGED <<argv, pre, fs, cwd>>
    /\ UNCHANGED <<agentVars, chatVars, sampleVars>>

\* mkdir -p "$PROJECT_NAME"/{.vscode,src/$PROJECT_NAME,tests}
\* brace expansion comes first; the second word ends in an unquoted expansion
sh_mkdir ==
    LET n == PROJECT_NAME
        words == << <<n, <<".vscode">>>> >>
                 \o split_fields(<<n, <<"src">>>>, n, <<>>)
                 \o << <<n, <<"tests">>>> >>
    IN Advance("mkdir", "cd",
               UNION {mkdir_p(fs, words[i]) : i \in DOMAIN words})

\* cd "$PROJECT_NAME" || exit
sh_cd ==
    /\ spc = "cd"
    /\ IF IsDir(fs, <<PROJECT_NAME>>)
       THEN /\ cwd' = <<PROJECT_NAME>>
            /\ spc' = "venv"
            /\ UNCHANGED status
       ELSE /\ status' = 1
            /\ spc' = "exited"
            /\ UNCHANGED cwd
    /\ UNCHANGED <<argv, pre, fs, out>>
    /\ UNCHANGED <<agentVars, chatVars, sampleVars>>

\* python3 -m venv .venv (the environment's tree, as its pyvenv.cfg)
sh_venv ==
    Advance("venv", "init",
            create_file(mkdir_p(fs, cwd \o <<<<".venv">>>>),
                        cwd \o <<<<".venv">>, <<"pyvenv.cfg">>>>))

\* touch src/$PROJECT_NAME/__init__.py
sh_init ==
    Advance("init", "main",
            touch(fs, Abs(split_fields(<<<<"src">>>>, PROJECT_NAME,
                                       <<<<"__init__.py">>>>))))

\* cat << EOF > src/$PROJECT_NAME/main.py
sh_main ==
    Advance("main", "test",
            redirect(fs, Abs(split_fields(<<<<"src">>>>, PROJECT_NAME,
                                          <<<<"main.py">>>>))))

\* cat << EOF > tests/test_dummy.py
sh_test ==
    Advance("test", "gitignore",
            redirect(fs, Abs(<<<<<<"tests">>, <<"test_dummy.py">>>>>>)))

\* cat << EOF > .gitignore
sh_gitignore ==
    Advance("gitignore", "requirements",
            redirect(fs, Abs(<<<<<<".gitignore">>>>>>)))

\* touch requirements.txt
sh_requirements ==
    Advance("requirements", "pyproject",
            touch(fs, Abs(<<<<<<"requirements.txt">>>>>>)))

\* cat << EOF > pyproject.toml
sh_pyproject ==
    Advance("pyproject", "settings",
            redirect(fs, Abs(<<<<<<"pyproject.toml">>>>>>)))

\* cat << EOF > .vscode/settings.json
sh_settings ==
    Advance("settings", "echo",
            redirect(fs, Abs(<<<<<<".vscode">>, <<"settings.json">>>>>>)))

\* echo "... has been created." and the next steps; the script ends
sh_echo ==
    /\ spc = "echo"
    /\ out' = Append(out, "Python project has been created.")
    /\ status' = 0
    /\ spc' = "exited"
    /\ UNCHANGED <<argv, pre, fs, cwd>>
    /\ UNCHANGED <<agentVars, chatVars, sampleVars>>

NextScript ==
    \/ sh_check \/ sh_mkdir \/ sh_cd \/ sh_venv \/ sh_init \/ sh_main
    \/ sh_test \/ sh_gitignore \/ sh_requirements \/ sh_pyproject
    \/ sh_settings \/ sh_echo

InitScript == AgentInit /\ ChatInit /\ ScriptInit /\ SampleRest

SpecScript == InitScript /\ [][NextScript]_vars

\* the regular files of the file system
Files == {e.path : e \in {x \in fs : x.kind = "file"}}

\* the files the script is to produce for the project name n
ExpectedFiles(n) ==
    {<<n, <<"src">>, n, <<"__init__.py">>>>,
     <<n, <<"src">>, n, <<"main.py">>>>,
     <<n, <<"tests">>, <<"test_dummy.py">>>>,
     <<n, <<".gitignore">>>>,
     <<n, <<"requirements.txt">>>>,
     <<n, <<"pyproject.toml">>>>,
     <<n, <<".vscode">>, <<"settings.json">>>>,
     <<n, <<".venv">>, <<"pyvenv.cfg">>>>}

\* C9: without a project name, or with an empty one, the script prints the
\* usage message and exits with status 1, and creates nothing.
C9_UsageAndExit ==
    PROJECT_NAME = <<>> =>
        /\ fs = {}
        /\ cwd = <<>>
        /\ \/ spc = "start" /\ out = <<>>
           \/ /\ spc = "exited"
              /\ status = 1
              /\ out = <<"Usage: $0 <project_name>">>

C9_Witness ==
    /\ argv = << <<>> >>
    /\ spc = "exited"
    /\ status = 1
    /\ out = <<"Usage: $0 <project_name>">>
    /\ fs = {}

\* C10: run with a project name in a directory where nothing of that name
\* exists, the script leaves exactly the fixed set of files, for every name.
C10_ExactFiles ==
    (spc = "exited" /\ status = 0 /\ pre = "nothing") =>
        Files = ExpectedFiles(PROJECT_NAME)
\* ------------------------------------------------------- cache statistics
\* the calls since the last clear that returned an instance an earlier call
\* since that clear had returned
CachedReturns == {i \in DOMAIN returned : \E j \in 1..(i - 1) : returned[j] = returned[i]}

\* C16: in sequential use the reported statistics follow the calls since the
\* last clear: misses is the number of constructions (0 or 1), hits the number
\* of calls that returned the cached instance, and currsize is at most 1.
C16_StatsFollowCalls ==
    LET info == get_chat_agent_cache_info
    IN /\ info.misses = created - createdAtClear
       /\ info.misses \in {0, 1}
       /\ info.hits = Cardinality(CachedReturns)
       /\ info.hits + info.misses = Len(returned)
       /\ info.currsize <= 1
       /\ info.currsize = Cardinality(cache)

C16_Witness ==
    /\ clears > 0
    /\ get_chat_agent_cache_info.misses = 1
    /\ get_chat_agent_cache_info.hits = 2
    /\ get_chat_agent_cache_info.currsize = 1

\* ------------------------------------------------------ scripts/init-db.sh
\* The script has no "set -e": every command runs whatever the one before
\* it returned, and the exit status is that of the last echo.

\* the other parts, as seen from init-db.sh
notDb == <<agentVars, chatVars, scriptVars, setupVars, workerVars, limiterVars, clientVars>>

\* a wait loop that gives up after the counted retries
keep_waiting_limited(n) == n < MaxRetries

\* until pg_isready ...; do ...; sleep 2; done: no retry limit, no timeout
keep_waiting(n) == TRUE

\* the commands in an order that migrates before the revision exists
StepsUpgradeFirst == <<"alembic upgrade head", "alembic revision --autogenerate", "pre-commit install">>

\* the commands after the wait loop, in the order of the script
Steps == <<"alembic revision --autogenerate", "alembic upgrade head", "pre-commit install">>

\* alembic revision --autogenerate that writes nothing when a revision exists
alembic_revision_once(revs, head) == IF revs = {} THEN {1} ELSE revs

\* alembic revision --autogenerate -m "Initial migration": refused when the
\* database is behind the newest revision, else one more revision file (also
\* when the models have not changed)
alembic_revision(revs, head) ==
    IF revs # {} /\ head # Cardinality(revs)
    THEN revs
    ELSE revs \cup {Cardinality(revs) + 1}

\* alembic upgrade head: the database is brought to the newest revision
alembic_upgrade(revs, head) == Cardinality(revs)

\* PostgreSQL comes up
pg_starts ==
    /\ ~pg_ready
    /\ pg_ready' = TRUE
    /\ UNCHANGED <<dpc, retries, cmds, revisions, db_head, runs, revsAfterRun>>
    /\ UNCHANGED notDb

\* The database container is stopped while no run of the script is under way
\* (the devcontainer is stopped or rebuilt between runs).
pg_stops ==
    /\ pg_ready
    /\ dpc = "done"
    /\ runs < MaxRuns
    /\ pg_ready' = FALSE
    /\ UNCHANGED <<dpc, retries, cmds, revisions, db_head, runs, revsAfterRun>>
    /\ UNCHANGED notDb

\* until pg_isready -h localhost -p 5432 -U postgres
db_wait ==
    /\ dpc = "wait"
    /\ IF pg_ready \/ ~keep_waiting(retries)
       THEN /\ dpc' = Steps[1]
            /\ cmds' = Append(cmds, IF pg_ready THEN "pg_isready: ok" ELSE "gave up")
            /\ UNCHANGED retries
       ELSE /\ dpc' = "sleep"
            /\ retries' = IF retries < MaxRetries THEN retries + 1 ELSE retries
            /\ UNCHANGED cmds
    /\ UNCHANGED <<pg_ready, revisions, db_head, runs, revsAfterRun>>
    /\ UNCHANGED notDb

\* echo "..."; sleep 2
db_sleep ==
    /\ dpc = "sleep"
    /\ dpc' = "wait"
    /\ UNCHANGED <<pg_ready, retries, cmds, revisions, db_head, runs, revsAfterRun>>
    /\ UNCHANGED notDb

\* the position after the i-th command
After(i) == IF i < Len(Steps) THEN Steps[i + 1] ELSE "echo"

\* uv run alembic revision --autogenerate -m "Initial migration"
db_revision ==
    /\ dpc = "alembic revision --autogenerate"
    /\ \E i \in DOMAIN Steps : Steps[i] = dpc /\ dpc' = After(i)
    /\ revisions' = IF pg_ready THEN alembic_revision(revisions, db_head) ELSE revisions
    /\ cmds' = Append(cmds, dpc)
    /\ UNCHANGED <<pg_ready, retries, db_head, runs, revsAfterRun>>
    /\ UNCHANGED notDb

\* uv run alembic upgrade head
db_upgrade ==
    /\ dpc = "alembic upgrade head"
    /\ \E i \in DOMAIN Steps : Steps[i] = dpc /\ dpc' = After(i)
    /\ db_head' = IF pg_ready THEN alembic_upgrade(revisions, db_head) ELSE db_head
    /\ cmds' = Append(cmds, dpc)
    /\ UNCHANGED <<pg_ready, retries, revisions, runs, revsAfterRun>>
    /\ UNCHANGED notDb

\* uv run pre-commit install
db_precommit ==
    /\ dpc = "pre-commit install"
    /\ \E i \in DOMAIN Steps : Steps[i] = dpc /\ dpc' = After(i)
    /\ cmds' = Append(cmds, dpc)
    /\ UNCHANGED <<pg_ready, retries, revisions, db_head, runs, revsAfterRun>>
    /\ UNCHANGED notDb

\* the closing echo lines; the script ends with status 0
db_echo ==
    /\ dpc = "echo"
    /\ dpc' = "done"
    /\ runs' = runs + 1
    /\ revsAfterRun' = Append(revsAfterRun, revisions)
    /\ UNCHANGED <<pg_ready, retries, cmds, revisions, db_head>>
    /\ UNCHANGED notDb

\* ./scripts/init-db.sh is started again
db_again ==
    /\ dpc = "done"
    /\ runs < MaxRuns
    /\ dpc' = "wait"
    /\ retries' = 0
    /\ cmds' = <<>>
    /\ UNCHANGED <<pg_ready, revisions, db_head, runs, revsAfterRun>>
    /\ UNCHANGED notDb

DbStep ==
    \/ db_wait \/ db_sleep \/ db_revision \/ db_upgrade \/ db_precommit
    \/ db_echo

NextDb == pg_starts \/ pg_stops \/ DbStep \/ db_again

InitDb == AgentInit /\ ChatInit /\ ScriptRest /\ SampleRest

\* A started script keeps running: its commands end, and the shell goes on
\* to the next one.
SpecDb == InitDb /\ [][NextDb]_vars /\ WF_vars(DbStep)

\* the place of command c in this run's commands (0: not executed)
Place(c) == IF \E i \in DOMAIN cmds : cmds[i] = c
            THEN CHOOSE i \in DOMAIN cmds : cmds[i] = c
            ELSE 0

C17_Order ==
    LET ok == Place("pg_isready: ok")
        rev == Place("alembic revision --autogenerate")
        upg == Place("alembic upgrade head")
        pre_commit == Place("pre-commit install")
    IN /\ rev > 0 => (ok > 0 /\ ok < rev)
       /\ upg > 0 => (ok > 0 /\ rev > 0 /\ rev < upg)
       /\ pre_commit > 0 => (rev > 0 /\ upg > 0 /\ upg < pre_commit)

C17_Witness ==
    /\ retries > 0
    /\ cmds = <<"pg_isready: ok", "alembic revision --autogenerate",
                "alembic upgrade head", "pre-commit install">>

\* C18: once PostgreSQL is ready the script runs to its end; as long as
\* pg_isready fails the script stays in the wait loop, however often it has
\* failed, and no migration step is performed.
C18_WaitsThenTerminates ==
    /\ pg_ready ~> (dpc = "done")
    /\ [][(~pg_ready /\ dpc \in {"wait", "sleep"}) => dpc' \in {"wait", "sleep"}]_vars
    /\ [](dpc \in {"wait", "sleep"} => cmds = <<>>)

C18_Witness ==
    /\ retries = MaxRetries
    /\ dpc = "done"
    /\ runs = 1
\* ------------------------------------------- the initial set-up script
\* (src/unnamed/part_001, after devcontainer.json). No "set -e": a failing
\* uv sync does not stop the script, and its exit status is that of the last
\* echo.

\* the other parts, as seen from the set-up script
notSetup == <<agentVars, chatVars, scriptVars, dbVars, workerVars, limiterVars, clientVars>>

\* the contents a .env can have
EnvContents == {1, 2}

\* an environment check that writes a default .env
env_check_writes(e) ==
    [said |-> IF e = None THEN "created" ELSE "exists", file |-> 1]

\* if [ ! -f .env ]; then echo "...作成されました..."; else echo "...既に存在します。"; fi
\* Both branches only print.
env_check(e) ==
    [said |-> IF e = None THEN "created" ELSE "exists", file |-> e]

\* The workspace the script is first run in: with or without a .env.
SetupInit ==
    /\ upc = "idle"
    /\ env \in {None} \cup EnvContents
    /\ envBefore = <<>>
    /\ envAfter = <<>>
    /\ uout = <<>>
    /\ synced = FALSE
    /\ executable = FALSE
    /\ ustatus = <<>>

\* The developer writes, changes or deletes ./.env between runs.
edit_env(e) ==
    /\ upc = "idle"
    /\ Len(envAfter) < MaxSetups
    /\ e # env
    /\ env' = e
    /\ UNCHANGED <<upc, envBefore, envAfter, uout, synced, executable, ustatus>>
    /\ UNCHANGED notSetup

\* The script is started: echo "初期セットアップを開始します..."
su_start ==
    /\ upc = "idle"
    /\ Len(envAfter) < MaxSetups
    /\ upc' = "sync"
    /\ envBefore' = Append(envBefore, env)
    /\ uout' = <<>>
    /\ UNCHANGED <<env, envAfter, synced, executable, ustatus>>
    /\ UNCHANGED notSetup

\* uv sync --dev --no-build-isolation, which succeeds or fails
su_sync(ok) ==
    /\ upc = "sync"
    /\ upc' = "chmod"
    /\ synced' = (synced \/ ok)
    /\ UNCHANGED <<env, envBefore, envAfter, uout, executable, ustatus>>
    /\ UNCHANGED notSetup

\* chmod +x scripts/*.sh
su_chmod ==
    /\ upc = "chmod"
    /\ upc' = "env"
    /\ executable' = TRUE
    /\ UNCHANGED <<env, envBefore, envAfter, uout, synced, ustatus>>
    /\ UNCHANGED notSetup

\* 環境変数ファイルの確認
su_env ==
    /\ upc = "env"
    /\ upc' = "echo"
    /\ uout' = Append(uout, env_check(env).said)
    /\ env' = env_check(env).file
    /\ UNCHANGED <<envBefore, envAfter, synced, executable, ustatus>>
    /\ UNCHANGED notSetup

\* the closing echo lines; the script ends with status 0
su_echo ==
    /\ upc = "echo"
    /\ upc' = "idle"
    /\ envAfter' = Append(envAfter, env)
    /\ ustatus' = Append(ustatus, 0)
    /\ UNCHANGED <<env, envBefore, uout, synced, executable>>
    /\ UNCHANGED notSetup

NextSetup ==
    \/ \E e \in {None} \cup EnvContents : edit_env(e)
    \/ su_start
    \/ \E ok \in BOOLEAN : su_sync(ok)
    \/ su_chmod
    \/ su_env
    \/ su_echo

InitSetup == AgentInit /\ ChatInit /\ ScriptRest /\ DbRest /\ SetupInit /\ WorkerRest /\ LimiterRest
             /\ WsRest /\ PageRest

SpecSetup == InitSetup /\ [][NextSetup]_vars

\* C12: a run that finds a .env reports it as existing and leaves it as it
\* was, however many runs came before, and ends with status 0.
C12_EnvUntouched ==
    /\ \A k \in DOMAIN envAfter :
          /\ ustatus[k] = 0
          /\ envBefore[k] # None => envAfter[k] = envBefore[k]
    /\ (upc # "idle" /\ envBefore[Len(envBefore)] # None) =>
          /\ env = envBefore[Len(envBefore)]
          /\ \A i \in DOMAIN uout : uout[i] = "exists"

C12_Witness ==
    /\ Len(envAfter) = MaxSetups
    /\ \A k \in DOMAIN envAfter : envBefore[k] = 2 /\ envAfter[k] = 2
    /\ uout = <<"exists">>

\* C19: a run that finds no .env leaves one behind, as its message says.
C19_EnvCreated ==
    \A k \in DOMAIN envAfter :
        envBefore[k] = None => envAfter[k] # None
\* --------------------------------------------- uvicorn worker processes
\* Every worker process imports the module for itself: it has its own
\* lru_cache around get_chat_agent(), and an object constructed in one
\* process does not exist in another. Inside a process the calls are those
\* of the cached implementation (lru_lookup, lru_call, lru_return).

\* the other parts, as seen from the worker processes
notWorkers == <<agentVars, chatVars, scriptVars, dbVars, setupVars, limiterVars, clientVars>>

\* the n-th ChatAgent constructed in process w
WorkerAgent(w, n) == <<w, n>>

\* A chat request in process w, thread t, enters get_chat_agent(): a hit
\* returns the cached instance, a miss goes on to call ChatAgent().
worker_lookup(w, t) ==
    /\ wpc[w][t] = "idle"
    /\ IF wcache[w] # {}
       THEN /\ wgot' = [wgot EXCEPT ![w][t] = wcache[w]]
            /\ wpc' = [wpc EXCEPT ![w][t] = "done"]
       ELSE /\ wpc' = [wpc EXCEPT ![w][t] = "calling"]
            /\ UNCHANGED wgot
    /\ UNCHANGED <<wcache, wmade, wcreated>>
    /\ UNCHANGED notWorkers

\* ChatAgent() runs in process w, with no lock held
worker_call(w, t) ==
    /\ wpc[w][t] = "calling"
    /\ LET a == WorkerAgent(w, Cardinality(wcreated[w]) + 1)
       IN /\ wmade' = [wmade EXCEPT ![w][t] = {a}]
          /\ wcreated' = [wcreated EXCEPT ![w] = @ \cup {a}]
    /\ wpc' = [wpc EXCEPT ![w][t] = "storing"]
    /\ UNCHANGED <<wcache, wgot>>
    /\ UNCHANGED notWorkers

\* the wrapper stores the result unless the key has been added meanwhile,
\* and returns the result of its own call
worker_return(w, t) ==
    /\ wpc[w][t] = "storing"
    /\ wcache' = [wcache EXCEPT ![w] =
                     lru_store(@, CHOOSE a \in wmade[w][t] : TRUE)]
    /\ wgot' = [wgot EXCEPT ![w][t] = wmade[w][t]]
    /\ wpc' = [wpc EXCEPT ![w][t] = "done"]
    /\ UNCHANGED <<wmade, wcreated>>
    /\ UNCHANGED notWorkers

NextWorkers ==
    \E w \in Workers, t \in WorkerThreads :
        worker_lookup(w, t) \/ worker_call(w, t) \/ worker_return(w, t)

InitWorkers == AgentInit /\ ChatInit /\ ScriptRest /\ SampleRest

SpecWorkers == InitWorkers /\ [][NextWorkers]_vars

\* the processes that have served a chat request
Served == {w \in Workers : \E t \in WorkerThreads : wpc[w][t] = "done"}

\* C13: with NumWorkers worker processes there are at most NumWorkers
\* ChatAgent instances, exactly one in each process that has served a chat
\* request, and no instance is shared between two processes.
C13_OnePerProcess ==
    /\ Cardinality(UNION {wcreated[w] : w \in Workers}) <= NumWorkers
    /\ \A w \in Served : Cardinality(wcreated[w]) = 1
    /\ \A w, v \in Workers : w # v => wcreated[w] \cap wcreated[v] = {}
\* ------------------------------------------------- the rate limiter
\* ChatAgent.__init__ creates an InMemoryRateLimiter and hands it to
\* ChatOpenAI(rate_limiter=...): every LLM call of that ChatAgent first
\* calls rate_limiter.acquire(), which loops
\*     while not self._consume(): time.sleep(self.check_every_n_seconds)
\* Time is counted in ticks of 1/(requests_per_second * TicksPerToken) s and
\* tokens in 1/TicksPerToken, so that one tick refills one unit.

\* the other parts, as seen from the rate limiter
notLimiter == <<chatVars, scriptVars, dbVars, setupVars, workerVars, clientVars>>

\* one token, and the full bucket, in units
OneToken == TicksPerToken
FullBucket == max_bucket_size * TicksPerToken

\* check_every_n_seconds = 0.1, in ticks
check_every_n_ticks == (requests_per_second * TicksPerToken) \div 10

MaxTime == 1 + FullBucket + MaxSlack

\* the steps the clock can make between two events
Jumps == {1, OneToken, FullBucket + 1}

Min(a, b) == IF a <= b THEN a ELSE b

\* InMemoryRateLimiter._consume(), under its lock, on a bucket b at time t:
\*   if self.last is None: self.last = now
\*   elapsed = now - self.last
\*   if elapsed * self.requests_per_second >= 1:
\*       self.available_tokens += elapsed * self.requests_per_second
\*       self.last = now
\*   self.available_tokens = min(self.available_tokens, self.max_bucket_size)
\*   if self.available_tokens >= 1: self.available_tokens -= 1; return True
\*   return False
_consume(b, t) ==
    LET last0 == IF b.last = None THEN t ELSE b.last
        elapsed == t - last0
        refill == elapsed >= OneToken
        filled == Min(IF refill THEN b.tokens + elapsed ELSE b.tokens, FullBucket)
    IN [last |-> IF refill THEN t ELSE last0,
        tokens |-> IF filled >= OneToken THEN filled - OneToken ELSE filled,
        ok |-> filled >= OneToken]

\* Task t, holding the ChatAgent get_chat_agent() gave it, calls the LLM:
\* one pass of the acquire loop on that agent's limiter, either let through
\* or sent to sleep for check_every_n_seconds.
limiter_acquire(t) ==
    /\ pc[t] = "done"
    /\ lpc[t] = "idle" \/ (lpc[t] = "sleeping" /\ now >= wake[t])
    /\ LET a == got[t]
           c == _consume([tokens |-> available_tokens[a], last |-> last[a]], now)
       IN /\ available_tokens' = [available_tokens EXCEPT ![a] = c.tokens]
          /\ last' = [last EXCEPT ![a] = c.last]
          /\ first' = [first EXCEPT ![a] = IF @ = None THEN now ELSE @]
          /\ IF c.ok
             THEN /\ grants' = [grants EXCEPT ![a] = @ + 1]
                  /\ lpc' = [lpc EXCEPT ![t] = "llm"]
                  /\ wake' = [wake EXCEPT ![t] = None]
             ELSE /\ lpc' = [lpc EXCEPT ![t] = "sleeping"]
                  /\ wake' = [wake EXCEPT ![t] = now + check_every_n_ticks]
                  /\ UNCHANGED grants
    /\ UNCHANGED now
    /\ UNCHANGED agentVars
    /\ UNCHANGED notLimiter

\* time passes
tick(d) ==
    /\ now + d <= MaxTime
    /\ now' = now + d
    /\ UNCHANGED <<available_tokens, last, first, grants, lpc, wake>>
    /\ UNCHANGED agentVars
    /\ UNCHANGED notLimiter

Callers == 1..Min(NumCallers, NumTasks)

NextLimiter ==
    \/ \E t \in Callers : lru_lookup(t) \/ lru_call(t) \/ lru_return(t)
    \/ \E t \in Callers : limiter_acquire(t)
    \/ \E d \in Jumps : tick(d)

InitLimiter == AgentInit /\ ChatInit /\ ScriptRest /\ SampleRest

SpecLimiter == InitLimiter /\ [][NextLimiter]_vars

\* Every bucket keeps within its size, and over its lifetime it lets through
\* no more calls than the time since its first use has refilled: each call
\* let through has taken one whole token.
BucketKeepsRate ==
    \A a \in Agents :
        /\ available_tokens[a] \in 0..(FullBucket - OneToken)
        /\ first[a] # None =>
              grants[a] * OneToken + available_tokens[a] <= now - first[a]
        /\ first[a] = None => grants[a] = 0 /\ available_tokens[a] = 0

\* A task that found no token has not called the LLM: it sleeps and tries
\* again, and is let through only by a _consume that found a token.
WaitsForToken ==
    [][\A t \in Tasks :
          (lpc[t] # "llm" /\ lpc'[t] = "llm") =>
              /\ _consume([tokens |-> available_tokens[got[t]], last |-> last[got[t]]], now).ok
              /\ now - first[got[t]] >= OneToken * (grants[got[t]] + 1)]_vars

\* the limiters that have been asked for a token
UsedBuckets == {a \in Agents : first[a] # None}

\* C15: the LLM calls of the process pass through one token bucket of at
\* most max_bucket_size tokens, each call let through takes one token, and
\* all tasks share that single bucket.
C15_OneSharedBucket ==
    /\ BucketKeepsRate
    /\ Cardinality(UsedBuckets) <= 1
\* ------------------------------------------------ the WebSocket chat page
\* The page's script is src/unnamed/part_003. A text is a sequence of
\* characters, "_" standing for white space and "a" for any other character.
\* The server side of /ws/{client_id} is not part of the sources: it is
\* modelled as the loop the page's script expects, which answers every
\* message it receives with one {status, response} frame.

\* the other parts, as seen from the WebSocket chat
notWs == <<agentVars, chatVars, scriptVars, dbVars, setupVars, workerVars,
           limiterVars, pageVars>>

Texts == UNION {[1..n -> {"_", "a"}] : n \in 0..MaxText}

RECURSIVE trimStart(_)
trimStart(s) ==
    IF s # <<>> /\ Head(s) = "_" THEN trimStart(Tail(s)) ELSE s

RECURSIVE trimEnd(_)
trimEnd(s) ==
    IF s # <<>> /\ s[Len(s)] = "_" THEN trimEnd(SubSeq(s, 1, Len(s) - 1)) ELSE s

\* String.prototype.trim()
trim(s) == trimEnd(trimStart(s))

\* the fixed texts of the page
Welcome == <<"welcome">>
Apology == <<"apology">>
ConnectionError == <<"connection error">>
Disconnected == <<"disconnected">>

\* the agent's reply to a message, and the text of an error frame
Reply(m) == <<"reply to">> \o m
ErrorDetail == <<"error detail">>

\* addUserMessage(text), addBotMessage(text), showTypingIndicator(): one
\* more child of #chat-messages
addUserMessage(c, text) == Append(c, [kind |-> "user", text |-> text])
addBotMessage(c, text) == Append(c, [kind |-> "bot", text |-> text])
showTypingIndicator(c) == Append(c, [kind |-> "typing", text |-> <<>>])

\* the typing indicators in the page
Typing(c) == {i \in DOMAIN c : c[i].kind = "typing"}

\* the sequence c without its i-th element
Without(c, i) == SubSeq(c, 1, i - 1) \o SubSeq(c, i + 1, Len(c))

\* an onmessage handler that leaves the typing indicator in place
removeTypingIndicator_never(c) == c

\* removeTypingIndicator(): document.getElementById('typing-indicator')
\* finds the first element with that id, and it is removed
removeTypingIndicator(c) ==
    IF Typing(c) = {}
    THEN c
    ELSE Without(c, CHOOSE i \in Typing(c) : \A j \in Typing(c) : i <= j)

\* a server that answers a failed message with no frame
server_frames_only_success(m, result) ==
    IF result = "ok"
    THEN <<[n |-> m.n, status |-> "success", response |-> Reply(m.message)]>>
    ELSE <<>>

\* the frames the server emits for a message: the reply, or the error
server_frames(m, result) ==
    IF result = "ok"
    THEN <<[n |-> m.n, status |-> "success", response |-> Reply(m.message)]>>
    ELSE <<[n |-> m.n, status |-> "error", response |-> ErrorDetail]>>

\* a test that lets every message through
is_blank_never(message) == FALSE

\* if (message) / if (!message) return: the empty string is the only falsy
\* string
is_blank(message) == message = <<>>

\* the user changes the text of the input field
ws_input(v) ==
    /\ v # userInput
    /\ wsSends < MaxWsSends
    /\ userInput' = v
    /\ UNCHANGED <<ws, chatMessages, wsSends, toServer, toClient, serving,
                   received, frames, consoleErrors>>
    /\ UNCHANGED notWs

\* ws.onopen
ws_onopen ==
    /\ ws = "connecting"
    /\ ws' = "open"
    /\ chatMessages' = addBotMessage(chatMessages, Welcome)
    /\ UNCHANGED <<userInput, wsSends, toServer, toClient, serving, received,
                   frames, consoleErrors>>
    /\ UNCHANGED notWs

\* sendMessage(), on a click of the button or on Enter. ws.send() throws
\* while the socket is connecting (the handler ends there) and discards the
\* data once it is closed.
sendMessage ==
    /\ ~is_blank(trim(userInput))
    /\ wsSends < MaxWsSends
    /\ wsSends' = wsSends + 1
    /\ IF ws = "connecting"
       THEN /\ chatMessages' = addUserMessage(chatMessages, trim(userInput))
            /\ UNCHANGED <<userInput, toServer>>
       ELSE /\ chatMessages' = showTypingIndicator(
                                   addUserMessage(chatMessages, trim(userInput)))
            /\ userInput' = <<>>
            /\ toServer' = IF ws = "open"
                           THEN Append(toServer, [n |-> wsSends + 1,
                                                  message |-> trim(userInput)])
                           ELSE toServer
    /\ UNCHANGED <<ws, toClient, serving, received, frames, consoleErrors>>
    /\ UNCHANGED notWs

\* sendMessage() with nothing but white space in the input field: no effect
sendMessage_empty ==
    /\ is_blank(trim(userInput))
    /\ UNCHANGED wsVars
    /\ UNCHANGED notWs

\* the server's handler receives the next message of the connection
ws_server_receive ==
    /\ ws = "open"
    /\ serving = <<>>
    /\ toServer # <<>>
    /\ serving' = <<Head(toServer)>>
    /\ received' = Append(received, Head(toServer).n)
    /\ toServer' = Tail(toServer)
    /\ UNCHANGED <<ws, userInput, chatMessages, wsSends, toClient, frames,
                   consoleErrors>>
    /\ UNCHANGED notWs

\* the agent call for that message ends, with a reply or an exception, and
\* the handler sends its frame and goes back to receiving
ws_server_respond(result) ==
    /\ ws = "open"
    /\ serving # <<>>
    /\ frames' = frames \o server_frames(serving[1], result)
    /\ toClient' = toClient \o server_frames(serving[1], result)
    /\ serving' = <<>>
    /\ UNCHANGED <<ws, userInput, chatMessages, wsSends, toServer, received,
                   consoleErrors>>
    /\ UNCHANGED notWs

\* the handler of a connection that has gone ends without a frame
ws_server_abandon ==
    /\ ws = "closed"
    /\ serving # <<>>
    /\ serving' = <<>>
    /\ UNCHANGED <<ws, userInput, chatMessages, wsSends, toServer, toClient,
                   received, frames, consoleErrors>>
    /\ UNCHANGED notWs

\* ws.onmessage
ws_onmessage ==
    /\ ws = "open"
    /\ toClient # <<>>
    /\ LET response == Head(toClient)
       IN IF response.status = "success"
          THEN /\ chatMessages' = addBotMessage(removeTypingIndicator(chatMessages),
                                                response.response)
               /\ UNCHANGED consoleErrors
          ELSE /\ chatMessages' = addBotMessage(removeTypingIndicator(chatMessages),
                                                Apology)
               /\ consoleErrors' = consoleErrors + 1
    /\ toClient' = Tail(toClient)
    /\ UNCHANGED <<ws, userInput, wsSends, toServer, serving, received, frames>>
    /\ UNCHANGED notWs

\* the connection fails: ws.onerror, then ws.onclose
ws_onerror ==
    /\ ws # "closed"
    /\ ws' = "closed"
    /\ chatMessages' = addBotMessage(
                           addBotMessage(removeTypingIndicator(chatMessages),
                                         ConnectionError),
                           Disconnected)
    /\ consoleErrors' = consoleErrors + 1
    /\ toServer' = <<>>
    /\ toClient' = <<>>
    /\ UNCHANGED <<userInput, wsSends, serving, received, frames>>
    /\ UNCHANGED notWs

\* the connection is closed: ws.onclose
ws_onclose ==
    /\ ws = "open"
    /\ ws' = "closed"
    /\ chatMessages' = addBotMessage(chatMessages, Disconnected)
    /\ toServer' = <<>>
    /\ toClient' = <<>>
    /\ UNCHANGED <<userInput, wsSends, serving, received, frames, consoleErrors>>
    /\ UNCHANGED notWs

NextWs ==
    \/ \E v \in Texts : ws_input(v)
    \/ ws_onopen
    \/ sendMessage
    \/ sendMessage_empty
    \/ ws_server_receive
    \/ \E result \in {"ok", "exception"} : ws_server_respond(result)
    \/ ws_server_abandon
    \/ ws_onmessage
    \/ ws_onerror
    \/ ws_onclose

InitWs == AgentInit /\ ChatInit /\ ScriptRest /\ SampleRest

SpecWs == InitWs /\ [][NextWs]_vars

\* the frames the server has emitted for message n
FramesFor(n) == {i \in DOMAIN frames : frames[i].n = n}

\* the message the handler is working on
Serving == {serving[i].n : i \in DOMAIN serving}

notPage == <<agentVars, chatVars, scriptVars, dbVars, setupVars, workerVars,
             limiterVars, wsVars>>

\* the conversation ids the server can generate for this page
PageIdSpace == 1..MaxPosts

\* the ways a request can settle: a 200 response, an error response with a
\* detail, or an exception of fetch() or response.json()
Results == {"ok", "http error", "exception"}

\* a handler that unlocks the page at the end of the try block only
finally_in_try(result) ==
    IF result = "exception"
    THEN [disabled |-> TRUE, loading |-> TRUE]
    ELSE [disabled |-> FALSE, loading |-> FALSE]

\* finally { sendButton.disabled = false; loading.style.display = 'none'; }
finally(result) == [disabled |-> FALSE, loading |-> FALSE]

\* a handler that stores data.conversation_id whatever the response was
stored_conversationId_any(current, result, id) == id

\* if (response.ok) { conversationId = data.conversation_id; ... }: the
\* stored id after a request has settled with result, id being the
\* conversation_id of the body (None when it has none)
stored_conversationId(current, result, id) ==
    IF result = "ok" THEN id ELSE current

\* addMessage(content, role), showError(message): one more child of #chatArea
addMessage(c, content, role) == Append(c, [kind |-> role, text |-> content])
showError(c, message) == Append(c, [kind |-> "error", text |-> message])

\* the user changes the text of the input field
page_input(v) ==
    /\ v # messageInput
    /\ posts < MaxPosts
    /\ messageInput' = v
    /\ UNCHANGED <<sendDisabled, loadingShown, conversationId, inflight, posts,
                   settled, chatArea, pageIds>>
    /\ UNCHANGED notPage

\* sendMessage() up to await fetch(...)
page_sendMessage ==
    LET message == trim(messageInput)
    IN IF is_blank(message)
       THEN UNCHANGED pageVars
       ELSE /\ posts < MaxPosts
            /\ chatArea' = addMessage(chatArea, message, "user")
            /\ messageInput' = <<>>
            /\ sendDisabled' = TRUE
            /\ loadingShown' = TRUE
            /\ posts' = posts + 1
            /\ inflight' = inflight \cup
                  {[n |-> posts + 1, message |-> message,
                    conversation_id |-> conversationId]}
            /\ UNCHANGED <<conversationId, settled, pageIds>>

\* sendButton click
page_click ==
    /\ ~sendDisabled
    /\ page_sendMessage
    /\ UNCHANGED notPage

\* messageInput keypress: Enter without Shift
page_enter ==
    /\ page_sendMessage
    /\ UNCHANGED notPage

\* The request req has settled with a 200 response whose conversation_id is
\* the one sent or, when none was sent, a generated one.
page_ok(req, fresh) ==
    /\ req \in inflight
    /\ LET id == conversation_id_for(req.conversation_id, fresh)
       IN /\ conversationId' = stored_conversationId(conversationId, "ok", id)
          /\ pageIds' = pageIds \cup ({id} \cap PageIdSpace)
    /\ chatArea' = addMessage(chatArea, Reply(req.message), "assistant")
    /\ sendDisabled' = finally("ok").disabled
    /\ loadingShown' = finally("ok").loading
    /\ inflight' = inflight \ {req}
    /\ settled' = Append(settled, [n |-> req.n, result |-> "ok"])
    /\ UNCHANGED <<messageInput, posts>>
    /\ UNCHANGED notPage

\* The request req has settled with an error response or an exception.
page_failed(req, result) ==
    /\ req \in inflight
    /\ result # "ok"
    /\ chatArea' = showError(chatArea, <<result>>)
    /\ sendDisabled' = finally(result).disabled
    /\ loadingShown' = finally(result).loading
    /\ inflight' = inflight \ {req}
    /\ settled' = Append(settled, [n |-> req.n, result |-> result])
    /\ conversationId' = stored_conversationId(conversationId, result, None)
    /\ UNCHANGED <<messageInput, posts, pageIds>>
    /\ UNCHANGED notPage

\* the errors shown
Errors(c) == {i \in DOMAIN c : c[i].kind = "error"}

\* setTimeout(() => errorDiv.remove(), 5000): the oldest error goes first
page_error_expires ==
    /\ Errors(chatArea) # {}
    /\ chatArea' = Without(chatArea, CHOOSE i \in Errors(chatArea) :
                                        \A j \in Errors(chatArea) : i <= j)
    /\ UNCHANGED <<messageInput, sendDisabled, loadingShown, conversationId,
                   inflight, posts, settled, pageIds>>
    /\ UNCHANGED notPage

NextPage ==
    \/ \E v \in Texts : page_input(v)
    \/ page_click
    \/ page_enter
    \/ \E req \in inflight, fresh \in PageIdSpace \ pageIds : page_ok(req, fresh)
    \/ \E req \in inflight, result \in Results : page_failed(req, result)
    \/ page_error_expires

InitPage == AgentInit /\ ChatInit /\ ScriptRest /\ SampleRest

SpecPage == InitPage /\ [][NextPage]_vars

\* C20: starting a request disables the send button and shows the loading
\* indicator; when a request has settled, with a reply, an error response or
\* an exception, the button is enabled and the indicator hidden; with no
\* request under way the page is never locked.
C20_UnlockedAfterRequest ==
    /\ [][posts' > posts => (sendDisabled' /\ loadingShown')]_vars
    /\ [][Len(settled') > Len(settled) => (~sendDisabled' /\ ~loadingShown')]_vars
    /\ [](inflight = {} => (~sendDisabled /\ ~loadingShown))

C20_Witness ==
    /\ inflight = {}
    /\ Len(settled) = MaxPosts
    /\ {"http error", "exception"} \subseteq {settled[i].result : i \in DOMAIN settled}
    /\ ~sendDisabled
    /\ ~loadingShown
\* the request started, and the request settled, by the step
StartedNow == inflight' \ inflight
SettledNow == inflight \ inflight'

\* C21: conversationId is null until a request has settled with a 200
\* response; only such a response changes it, to the conversation_id it
\* carries (the id the request sent or, for a request that sent null, a newly
\* generated one); an error response or an exception leaves it as it is; and
\* a request carries the value stored when it is started.
C21_ConversationIdStored ==
    /\ []((\A i \in DOMAIN settled : settled[i].result # "ok") => conversationId = None)
    /\ [][conversationId' # conversationId =>
             /\ Len(settled') > Len(settled)
             /\ settled'[Len(settled')].result = "ok"]_vars
    /\ [][(Len(settled') > Len(settled) /\ settled'[Len(settled')].result = "ok") =>
             \E req \in SettledNow :
                 conversationId' = IF req.conversation_id # None
                                   THEN req.conversation_id
                                   ELSE CHOOSE id \in pageIds' \ pageIds : TRUE]_vars
    /\ [][(Len(settled') > Len(settled) /\ settled'[Len(settled')].result # "ok") =>
             conversationId' = conversationId]_vars
    /\ [][posts' > posts =>
             /\ conversationId' = conversationId
             /\ \A req \in StartedNow : req.conversation_id = conversationId]_vars

C21_Witness ==
    /\ Len(settled) = 2
    /\ settled[1].result = "ok"
    /\ settled[2].result = "exception"
    /\ conversationId # None
    /\ inflight = {}
\* ------------------------------------------------------- either chat page
\* A browser window shows one of the two chat pages: the first event decides
\* which, and the other page stays as it was loaded.
NextClients ==
    \/ PageRest /\ NextWs
    \/ WsRest /\ NextPage

InitClients == AgentInit /\ ChatInit /\ ScriptRest /\ SampleRest

SpecClients == InitClients /\ [][NextClients]_vars

\* the user messages shown by the two pages
WsUserMessages(c) == {i \in DOMAIN c : c[i].kind = "user"}

\* C22: with an input that is empty after trimming, neither page shows a
\* user message, sends anything, starts a request, adds a typing indicator,
\* shows the loading indicator or disables the button; no message shown or
\* sent is empty.
C22_EmptyInputIgnored ==
    /\ [][is_blank(trim(userInput)) =>
             /\ wsSends' = wsSends
             /\ Len(toServer') <= Len(toServer)
             /\ Cardinality(WsUserMessages(chatMessages')) = Cardinality(WsUserMessages(chatMessages))
             /\ Cardinality(Typing(chatMessages')) <= Cardinality(Typing(chatMessages))]_vars
    /\ [][is_blank(trim(messageInput)) =>
             /\ posts' = posts
             /\ inflight' \subseteq inflight
             /\ Cardinality(WsUserMessages(chatArea')) = Cardinality(WsUserMessages(chatArea))
             /\ sendDisabled' => sendDisabled
             /\ loadingShown' => loadingShown]_vars
    /\ [](\A i \in WsUserMessages(chatMessages) : chatMessages[i].text # <<>>)
    /\ [](\A i \in WsUserMessages(chatArea) : chatArea[i].text # <<>>)
    /\ [](\A i \in DOMAIN toServer : toServer[i].message # <<>>)
    /\ [](\A req \in inflight : req.message # <<>>)

C22_Witness ==
    /\ userInput = <<"_">>
    /\ ws = "open"
    /\ wsSends = 1
    /\ toServer # <<>>
\* the bot messages of the chat view
BotMessages(c) == {i \in DOMAIN c : c[i].kind = "bot"}

\* the step is ws.onmessage: a frame has been taken by the page
Delivered == ws = "open" /\ ws' = "open" /\ Len(toClient') < Len(toClient)

\* C23: every frame the page receives takes one typing indicator away (when
\* there is one) and appends exactly one bot message, the response text for
\* status success and the fixed apology otherwise; the error text of the
\* server goes to the console and is never in the chat view.
C23_OneBotMessagePerFrame ==
    /\ [][Delivered =>
             LET frame == Head(toClient)
                 c == chatMessages
                 d == chatMessages'
             IN /\ toClient' = Tail(toClient)
                /\ Cardinality(BotMessages(d)) = Cardinality(BotMessages(c)) + 1
                /\ Cardinality(WsUserMessages(d)) = Cardinality(WsUserMessages(c))
                /\ Cardinality(Typing(d)) =
                      IF Typing(c) = {} THEN 0 ELSE Cardinality(Typing(c)) - 1
                /\ d[Len(d)].kind = "bot"
                /\ d[Len(d)].text = IF frame.status = "success"
                                    THEN frame.response ELSE Apology
                /\ consoleErrors' = IF frame.status = "success"
                                    THEN consoleErrors ELSE consoleErrors + 1]_vars
    /\ [](\A i \in DOMAIN chatMessages : chatMessages[i].text # ErrorDetail)

C23_Witness ==
    /\ ws = "open"
    /\ Len(frames) = 2
    /\ toClient = <<>>
    /\ consoleErrors = 1
    /\ Typing(chatMessages) = {}
    /\ \E i, j \in BotMessages(chatMessages) :
          /\ chatMessages[i].text = Apology
          /\ chatMessages[j].text = Reply(<<"a">>)
\* C24: the HTTP chat page never has more than one POST /api/chat request
\* under way, so no two outstanding requests both carry a null
\* conversation_id.
C24_OneInFlight ==
    /\ Cardinality(inflight) <= 1
    /\ \A q, req \in inflight :
          (q.conversation_id = None /\ req.conversation_id = None) => q = req

\* the messages handed to the connection that no frame received by the page
\* has answered yet
Unanswered == Len(toServer) + Len(serving) + Len(toClient)

\* C25: the chat view holds as many typing indicators as there are sent
\* messages without a received frame, and none once the connection has
\* reported an error or closed.
C25_TypingMatchesUnanswered ==
    /\ ws # "closed" => Cardinality(Typing(chatMessages)) = Unanswered
    /\ ws = "closed" => Typing(chatMessages) = {}

\* C26: a step that shows a user message or a typing indicator happens on an
\* open connection and hands that message to it.
C26_ShownMeansSent ==
    [][(\/ Cardinality(WsUserMessages(chatMessages')) > Cardinality(WsUserMessages(chatMessages))
        \/ Cardinality(Typing(chatMessages')) > Cardinality(Typing(chatMessages))) =>
           /\ ws = "open"
           /\ Len(toServer') = Len(toServer) + 1
           /\ \E i \in WsUserMessages(chatMessages') :
                 chatMessages'[i].text = toServer'[Len(toServer')].message]_vars

\* what the run has added to the file system
Written == fs \ InitialFs(pre, PROJECT_NAME)

\* C27: everything the script creates is under <project_name>/, and a run
\* that could not change into that directory ends with a non-zero status.
C27_OnlyInsideProject ==
    /\ \A e \in Written : e.path # <<>> /\ e.path[1] = PROJECT_NAME
    /\ (spc = "exited" /\ PROJECT_NAME # <<>> /\ cwd = <<>>) => status # 0
====
